---- MODULE Spec2Model ----
(***************************************************************************)
(* GTASceneSync: the IDE (item definition) and IPL (item placement)        *)
(* exporters of src/GTASceneSync.py, their name resolution, id assignment, *)
(* start-id selection, file-path normalisation and file writing.           *)
(*                                                                         *)
(* Strings the code inspects (object, collection and file names) are       *)
(* sequences of one-character strings, so that the regular expressions and *)
(* suffix tests are computed character by character.  Floating point       *)
(* values are sign-magnitude fixed-point numbers in units of 10^-7, so     *)
(* that -0.0 differs from 0.0 and the "%.6f" formatting really rounds.     *)
(***************************************************************************)
EXTENDS Integers, Sequences, FiniteSets, TLC

VARIABLES
    selected_objects,   \* context.selected_objects, in order
    gtass_model_id,     \* bpy.types.Scene.gtass_model_id
    op,                 \* the operator instance waiting in the file selector, or NoOp
    fs,                 \* the files on disk: path -> sequence of lines
    last                \* per operator class: what its last execute() was given,
                        \* returned and reported

vars == <<selected_objects, gtass_model_id, op, fs, last>>

(***************************************************************************)
(* Bounds of the model.                                                    *)
(***************************************************************************)
MaxSel == 2          \* longest selection drawn

(***************************************************************************)
(* Characters and strings.                                                 *)
(***************************************************************************)
NL == "\n"
Digits == {"0", "1", "2", "3", "4", "5", "6", "7", "8", "9"}
UpperCase == <<"A","B","C","D","E","F","G","H","I","J","K","L","M",
               "N","O","P","Q","R","S","T","U","V","W","X","Y","Z">>
LowerCase == <<"a","b","c","d","e","f","g","h","i","j","k","l","m",
               "n","o","p","q","r","s","t","u","v","w","x","y","z">>

\* str.lower() on one character, and on a string.
LowerChar(c) ==
    IF \E i \in 1..Len(UpperCase) : UpperCase[i] = c
    THEN LowerCase[CHOOSE i \in 1..Len(UpperCase) : UpperCase[i] = c]
    ELSE c
Lower(s) == [i \in 1..Len(s) |-> LowerChar(s[i])]

\* str.endswith
EndsWith(s, suf) ==
    /\ Len(s) >= Len(suf)
    /\ SubSeq(s, Len(s) - Len(suf) + 1, Len(s)) = suf

DropLast(s, n) == SubSeq(s, 1, Len(s) - n)

\* In a Python pattern without re.MULTILINE, "$" matches at the end of the
\* string and also just before a newline that is the last character.  The
\* patterns below end in a digit or a letter, so a match ends at the end of
\* DollarBody(s); DollarTail(s) is what follows the match and is kept.
DollarBody(s) == IF Len(s) > 0 /\ s[Len(s)] = NL THEN DropLast(s, 1) ELSE s
DollarTail(s) == IF Len(s) > 0 /\ s[Len(s)] = NL THEN <<NL>> ELSE <<>>

\* The index of the "." that starts a match of \.\d+ ending at the end of b,
\* or 0 when there is none.
NumericSuffixStart(b) ==
    LET starts == {i \in 1..Len(b) :
                     /\ b[i] = "."
                     /\ i < Len(b)
                     /\ \A j \in (i+1)..Len(b) : b[j] \in Digits}
    IN IF starts = {} THEN 0 ELSE CHOOSE i \in starts : \A k \in starts : i <= k

\* re.sub(r"\.\d+$", "", name)
clean_name(name) ==
    LET b == DollarBody(name)
        i == NumericSuffixStart(b)
    IN IF i = 0 THEN name ELSE SubSeq(b, 1, i - 1) \o DollarTail(name)

DffSuffix == <<".", "d", "f", "f">>

\* re.sub(r"\.dff$", "", name, flags=re.IGNORECASE)
clean_collection_name(name) ==
    LET b == DollarBody(name)
    IN IF EndsWith(Lower(b), DffSuffix)
       THEN DropLast(b, Len(DffSuffix)) \o DollarTail(name)
       ELSE name

Unnamed == <<"U", "n", "n", "a", "m", "e", "d">>

\* coll = obj.users_collection[0] if obj.users_collection else None
\* base = clean_collection_name(coll.name) if coll else clean_name(obj.name)
base_name(o) ==
    IF o.users_collection # <<>>
    THEN clean_collection_name(o.users_collection[1])
    ELSE clean_name(o.name)

\* name = name or 'Unnamed'
or_unnamed(name) == IF name = <<>> THEN Unnamed ELSE name

(***************************************************************************)
(* Floating point numbers: [neg, mag] stands for (-1)^neg * mag * 10^-7.   *)
(* The arithmetic is exact on the values the model draws (quaternions with *)
(* components 0 and +-1, half-turn Euler angles), with IEEE signed zeros.  *)
(***************************************************************************)
FmtDigits == 6
Unit == 10 ^ (FmtDigits + 1)

Flt(neg, mag) == [neg |-> neg, mag |-> mag]
FZero == Flt(FALSE, 0)
FOne == Flt(FALSE, Unit)
FNeg(a) == Flt(~a.neg, a.mag)
FMul(a, b) ==
    Flt(a.neg # b.neg,
        (a.mag \div Unit) * b.mag + ((a.mag % Unit) * b.mag) \div Unit)
FSigned(a) == IF a.neg THEN 0 - a.mag ELSE a.mag
FAdd(a, b) ==
    LET s == FSigned(a) + FSigned(b)
    IN IF s = 0 THEN Flt(a.neg /\ b.neg, 0)
       ELSE IF s < 0 THEN Flt(TRUE, 0 - s) ELSE Flt(FALSE, s)
FSub(a, b) == FAdd(a, FNeg(b))

\* fmt = lambda v: f"{v:.6f}": the text "[-]int.frac" with six decimals,
\* rounded to nearest (ties to even), the sign kept even when all digits are 0.
fmt(v) ==
    LET q == v.mag \div 10
        r == v.mag % 10
        n == IF r > 5 \/ (r = 5 /\ q % 2 = 1) THEN q + 1 ELSE q
    IN [neg |-> v.neg, int |-> n \div (10 ^ FmtDigits), frac |-> n % (10 ^ FmtDigits)]

Quat(w, x, y, z) == [w |-> w, x |-> x, y |-> y, z |-> z]

quat_mul_reversed(a, b) ==
    Quat(FSub(FSub(FSub(FMul(b.w, a.w), FMul(b.x, a.x)), FMul(b.y, a.y)), FMul(b.z, a.z)),
         FSub(FAdd(FAdd(FMul(b.w, a.x), FMul(b.x, a.w)), FMul(b.y, a.z)), FMul(b.z, a.y)),
         FSub(FAdd(FAdd(FMul(b.w, a.y), FMul(b.y, a.w)), FMul(b.z, a.x)), FMul(b.x, a.z)),
         FSub(FAdd(FAdd(FMul(b.w, a.z), FMul(b.z, a.w)), FMul(b.x, a.y)), FMul(b.y, a.x)))

\* off @ base: the quaternion product of mathutils, a times b
quat_mul(a, b) ==
    Quat(FSub(FSub(FSub(FMul(a.w, b.w), FMul(a.x, b.x)), FMul(a.y, b.y)), FMul(a.z, b.z)),
         FSub(FAdd(FAdd(FMul(a.w, b.x), FMul(a.x, b.w)), FMul(a.y, b.z)), FMul(a.z, b.y)),
         FSub(FAdd(FAdd(FMul(a.w, b.y), FMul(a.y, b.w)), FMul(a.z, b.x)), FMul(a.x, b.z)),
         FSub(FAdd(FAdd(FMul(a.w, b.z), FMul(a.z, b.w)), FMul(a.x, b.y)), FMul(a.y, b.x)))

\* Euler angles are counted in half turns: the angle k stands for k * pi, so
\* that the cosine and sine of half the angle are 0 or +-1.
CosHalf(k) == <<FOne, FZero, Flt(TRUE, Unit), FZero>>[(k % 4) + 1]
SinHalf(k) == <<FZero, FOne, FZero, Flt(TRUE, Unit)>>[(k % 4) + 1]

\* mathutils.Euler(self.default_rotation, 'XYZ').to_quaternion()
euler_to_quaternion(e) ==
    LET ci == CosHalf(e[1])  si == SinHalf(e[1])
        cj == CosHalf(e[2])  sj == SinHalf(e[2])
        ch == CosHalf(e[3])  sh == SinHalf(e[3])
        cc == FMul(ci, ch)   cs == FMul(ci, sh)
        sc == FMul(si, ch)   ss == FMul(si, sh)
    IN Quat(FAdd(FMul(cj, cc), FMul(sj, ss)),
            FSub(FMul(cj, sc), FMul(sj, cs)),
            FAdd(FMul(cj, ss), FMul(sj, cc)),
            FSub(FMul(cj, cs), FMul(sj, sc)))

(***************************************************************************)
(* File paths.                                                             *)
(***************************************************************************)
IdeExt == <<".", "i", "d", "e">>
IplExt == <<".", "i", "p", "l">>

\* if not self.filepath.lower().endswith('.ide'): self.filepath += '.ide'
ide_filepath(filepath) ==
    IF EndsWith(Lower(filepath), IdeExt) THEN filepath ELSE filepath \o IdeExt

\* pathlib: PurePath.suffix of a path without directories
path_suffix(name) ==
    LET dots == {i \in 1..Len(name) : name[i] = "."}
        i == IF dots = {} THEN 0 ELSE CHOOSE d \in dots : \A k \in dots : k <= d
    IN IF 1 < i /\ i < Len(name) THEN SubSeq(name, i, Len(name)) ELSE <<>>

\* pathlib: PurePath.with_suffix, which raises ValueError on an empty name
with_suffix_raises(name) == name = <<>>
with_suffix(name, suffix) == DropLast(name, Len(path_suffix(name))) \o suffix

\* ExportAsIPL.validate_filepath
validate_filepath_raises(filepath) ==
    Lower(path_suffix(filepath)) # IplExt /\ with_suffix_raises(filepath)
validate_filepath(filepath) ==
    IF Lower(path_suffix(filepath)) # IplExt
    THEN with_suffix(filepath, IplExt)
    ELSE filepath

(***************************************************************************)
(* Id assignment.  A Python dict keeps insertion order: it is a sequence   *)
(* of entries with distinct keys.                                          *)
(***************************************************************************)
DefaultModelId == 4542

HasKey(d, k) == \E i \in 1..Len(d) : d[i].key = k
Get(d, k) == d[CHOOSE i \in 1..Len(d) : d[i].key = k]

\* objs = [o for o in context.selected_objects if o.type == 'MESH']
mesh_objects_unfiltered(sel) == sel
mesh_objects(sel) == SelectSeq(sel, LAMBDA o : o.type = "MESH")

ide_start_id_ignores_scene(model_id, scene_id) ==
    IF model_id # 0 THEN model_id ELSE DefaultModelId

\* start_id = self.model_id or getattr(context.scene, "gtass_model_id", 4542)
\* (register() defines Scene.gtass_model_id, so the attribute exists)
ide_start_id(model_id, scene_id) ==
    IF model_id # 0 THEN model_id ELSE scene_id

\* cur = self.model_id or bpy.context.scene.gtass_model_id
ipl_start_id(model_id, scene_id) ==
    IF model_id # 0 THEN model_id ELSE scene_id

\* invoke: if (not self.model_id or self.model_id == 4542) and hasattr(...):
\*             self.model_id = context.scene.gtass_model_id
invoke_model_id(model_id, scene_id) ==
    IF model_id = 0 \/ model_id = DefaultModelId THEN scene_id ELSE model_id

\* the loop of ExportAsIDE.execute that fills `unique`
RECURSIVE ide_collect(_, _, _)
ide_collect(objs, unique, cur) ==
    IF objs = <<>> THEN unique
    ELSE LET obj == Head(objs)
             base == base_name(obj)
             props == obj.ide_flags
         IN IF ~HasKey(unique, base)
            THEN ide_collect(Tail(objs),
                     Append(unique, [key |-> base, mid |-> cur,
                                     txd |-> props.texture_name,
                                     dist |-> props.render_distance,
                                     flag |-> props.ide_flag]),
                     cur + 1)
            ELSE ide_collect(Tail(objs), unique, cur)

\* name = clean_collection_name(coll.name) if coll else clean_name(o.name)
\* name = name or 'Unnamed'          (generate_mapping and write_ipl alike)
ipl_name(o) == or_unnamed(base_name(o))

\* the loop of ExportAsIPL.generate_mapping
RECURSIVE ipl_collect(_, _, _)
ipl_collect(objs, mapping, cur) ==
    IF objs = <<>> THEN mapping
    ELSE LET name == ipl_name(Head(objs))
         IN IF ~HasKey(mapping, name)
            THEN ipl_collect(Tail(objs), Append(mapping, [key |-> name, mid |-> cur]), cur + 1)
            ELSE ipl_collect(Tail(objs), mapping, cur)

generate_mapping(objs, model_id, scene_id) ==
    ipl_collect(objs, <<>>, ipl_start_id(model_id, scene_id))

\* mid = mapping.get(nm, -1)
mapping_get(mapping, nm) == IF HasKey(mapping, nm) THEN Get(mapping, nm).mid ELSE -1

(***************************************************************************)
(* The lines written.  A file is a sequence of lines; each f.write() call  *)
(* adds a chunk of lines.                                                  *)
(***************************************************************************)
ObjsLine == [kind |-> "objs"]
EndLine == [kind |-> "end"]
CommentLine == [kind |-> "# Exported with GTASceneSync"]
InstLine == [kind |-> "inst"]

\* f.write(f"{mid}, {name}, {txd}, {dist}, {flag}\n")
ide_line(e) ==
    [kind |-> "ide", id |-> e.mid, name |-> e.key, txd |-> e.txd,
     dist |-> e.dist, flag |-> e.flag]

\* the f.write() calls of ExportAsIDE.execute, in order
ide_writes(unique) ==
    <<(<<ObjsLine>>)>> \o [i \in 1..Len(unique) |-> <<ide_line(unique[i])>>]
                     \o <<(<<EndLine>>)>>

\* base = wm.to_quaternion()
\* if self.apply_default_rotation: base = off @ base
ipl_base(self, obj) ==
    IF self.apply_default_rotation
    THEN quat_mul(euler_to_quaternion(self.default_rotation), obj.quat)
    ELSE obj.quat

ipl_line_no_placeholder(self, obj, mapping) ==
    LET pos == obj.pos
        base == ipl_base(self, obj)
        nm == base_name(obj)
    IN [kind |-> "ipl", id |-> mapping_get(mapping, nm), name |-> nm, inter |-> 0,
        px |-> fmt(pos.x), py |-> fmt(pos.y), pz |-> fmt(pos.z),
        rx |-> fmt(FNeg(base.x)), ry |-> fmt(base.y),
        rz |-> fmt(FNeg(base.z)), rw |-> fmt(base.w), lod |-> -1]

\* one pass of the loop of write_ipl: the record of one object
ipl_line(self, obj, mapping) ==
    LET pos == obj.pos
        base == ipl_base(self, obj)
        rx == FNeg(base.x)
        ry == base.y
        rz == FNeg(base.z)
        rw == base.w
        nm == ipl_name(obj)
        mid == mapping_get(mapping, nm)
    IN [kind |-> "ipl", id |-> mid, name |-> nm, inter |-> 0,
        px |-> fmt(pos.x), py |-> fmt(pos.y), pz |-> fmt(pos.z),
        rx |-> fmt(rx), ry |-> fmt(ry), rz |-> fmt(rz), rw |-> fmt(rw),
        lod |-> -1]

\* the f.write() calls of ExportAsIPL.write_ipl, in order
ipl_writes(self, objs, mapping) ==
    <<(<<CommentLine, InstLine>>)>>
        \o [i \in 1..Len(objs) |-> <<ipl_line(self, objs[i], mapping)>>]
        \o <<(<<EndLine>>)>>

RECURSIVE Concat(_, _)
Concat(chunks, k) ==
    IF k = 0 THEN <<>> ELSE Concat(chunks, k - 1) \o chunks[k]

NoFault == [kind |-> "none", at |-> 0]
OpenFault == [kind |-> "open", at |-> 0]
WriteFault(k) == [kind |-> "write", at |-> k]

\* with open(self.filepath, 'w', encoding='utf-8') as f: ... f.write(...) ...
\* open() fails and leaves the disk as it is, or creates/truncates the file;
\* the fault.at-th write raises OSError after the writes before it; leaving
\* the with block closes the file with what was written.
written(files, path, writes, fault) ==
    IF fault.kind = "open" THEN files
    ELSE LET k == IF fault.kind = "write" THEN fault.at - 1 ELSE Len(writes)
         IN [p \in DOMAIN files \cup {path} |->
               IF p = path THEN Concat(writes, k) ELSE files[p]]

\* the I/O failures of one export: none, open() fails, or a write fails
Faults(writes) ==
    {NoFault, OpenFault} \cup {WriteFault(k) : k \in 1..Len(writes)}

(***************************************************************************)
(* The operators.  `self` holds the properties of the operator instance    *)
(* when execute() starts; given/invoked/edited record where its model_id   *)
(* comes from (the value it was created with, whether invoke() ran, the    *)
(* scene's start id invoke() read, and whether the user changed it in the  *)
(* file selector).  `faults` says which I/O failures the disk may produce. *)
(***************************************************************************)
Classes == {"IDE", "IPL"}

NoOp == [cls |-> "none", model_id |-> 0, given |-> 0, invoke_scene_id |-> 0]

NoRotation == <<0, 0, 0>>

NoLast ==
    [ret |-> "NONE", report |-> "NONE", given |-> 0, invoked |-> FALSE,
     invoke_scene_id |-> 0, edited |-> FALSE, model_id |-> 0, scene_id |-> 0,
     filepath_in |-> <<>>, filepath |-> <<>>, opened |-> FALSE, mapping |-> <<>>,
     apply_default_rotation |-> FALSE, default_rotation |-> NoRotation]

Returned(self, ret, report, filepath, opened, mapping) ==
    [ret |-> ret, report |-> report, given |-> self.given,
     invoked |-> self.invoked, invoke_scene_id |-> self.invoke_scene_id,
     edited |-> self.edited, model_id |-> self.model_id,
     scene_id |-> gtass_model_id, filepath_in |-> self.filepath,
     filepath |-> filepath, opened |-> opened, mapping |-> mapping,
     apply_default_rotation |-> self.apply_default_rotation,
     default_rotation |-> self.default_rotation]

\* ExportAsIDE.execute
ExportAsIDE_execute(self, faults) ==
    LET objs == mesh_objects(selected_objects)
        filepath == ide_filepath(self.filepath)
        start_id == ide_start_id(self.model_id, gtass_model_id)
        unique == ide_collect(objs, <<>>, start_id)
        writes == ide_writes(unique)
    IN IF objs = <<>>
       THEN /\ fs' = fs
            /\ last' = [last EXCEPT !["IDE"] =
                          Returned(self, "CANCELLED", "WARNING", self.filepath, FALSE, <<>>)]
       ELSE \E fault \in Faults(writes) \cap faults :
            /\ fs' = written(fs, filepath, writes, fault)
            /\ last' = [last EXCEPT !["IDE"] =
                          Returned(self,
                                   IF fault = NoFault THEN "FINISHED" ELSE "CANCELLED",
                                   IF fault = NoFault THEN "INFO" ELSE "ERROR",
                                   filepath, fault.kind # "open", unique)]

\* ExportAsIPL.execute
ExportAsIPL_execute(self, faults) ==
    LET objs == mesh_objects(selected_objects)
        filepath == validate_filepath(self.filepath)
        mapping == generate_mapping(objs, self.model_id, gtass_model_id)
        writes == ipl_writes(self, objs, mapping)
    IN IF objs = <<>>
       THEN /\ fs' = fs
            /\ last' = [last EXCEPT !["IPL"] =
                          Returned(self, "CANCELLED", "WARNING", self.filepath, FALSE, <<>>)]
       ELSE IF validate_filepath_raises(self.filepath)
       THEN \* the ValueError of Path.with_suffix leaves execute() uncaught
            /\ fs' = fs
            /\ last' = [last EXCEPT !["IPL"] =
                          Returned(self, "RAISED", "ERROR", self.filepath, FALSE, <<>>)]
       ELSE \E fault \in Faults(writes) \cap faults :
            /\ fs' = written(fs, filepath, writes, fault)
            /\ last' = [last EXCEPT !["IPL"] =
                          Returned(self,
                                   IF fault = NoFault THEN "FINISHED" ELSE "CANCELLED",
                                   IF fault = NoFault THEN "INFO" ELSE "ERROR",
                                   filepath, fault.kind # "open", mapping)]

\* the Start ID field of the panel (IntProperty, min=0)
SetStartId(v) ==
    /\ v # gtass_model_id
    /\ gtass_model_id' = v
    /\ UNCHANGED <<selected_objects, op, fs, last>>

\* ExportAsIDE.invoke / ExportAsIPL.invoke on an instance created with
\* model_id = mid (the panel's buttons create it with the scene's start id)
Invoke(cls, mid) ==
    /\ op = NoOp
    /\ op' = [cls |-> cls, model_id |-> invoke_model_id(mid, gtass_model_id),
              given |-> mid,
              invoke_scene_id |-> IF mid = 0 \/ mid = DefaultModelId
                                  THEN gtass_model_id ELSE 0]
    /\ UNCHANGED <<selected_objects, gtass_model_id, fs, last>>

\* the file selector is cancelled
CancelFileSelect ==
    /\ op # NoOp
    /\ op' = NoOp
    /\ UNCHANGED <<selected_objects, gtass_model_id, fs, last>>

\* the properties execute() sees: confirmed in the file selector after
\* invoke(), with the properties the user set there, or called directly
Selfs(cls, paths, ids, edits, applies, rots) ==
    IF op = NoOp
    THEN {[filepath |-> p, model_id |-> m, given |-> m, invoked |-> FALSE,
           invoke_scene_id |-> 0, edited |-> FALSE,
           apply_default_rotation |-> a, default_rotation |-> r] :
            p \in paths, m \in ids, a \in applies, r \in rots}
    ELSE IF op.cls = cls
    THEN {[filepath |-> p, model_id |-> m, given |-> op.given, invoked |-> TRUE,
           invoke_scene_id |-> op.invoke_scene_id, edited |-> m # op.model_id,
           apply_default_rotation |-> a, default_rotation |-> r] :
            p \in paths, m \in edits \cup {op.model_id}, a \in applies, r \in rots}
    ELSE {}

ExecuteIDE(paths, ids, edits, faults) ==
    /\ \E self \in Selfs("IDE", paths, ids, edits, {FALSE}, {NoRotation}) :
          ExportAsIDE_execute(self, faults)
    /\ op' = NoOp
    /\ UNCHANGED <<selected_objects, gtass_model_id>>

ExecuteIPL(paths, ids, edits, applies, rots, faults) ==
    /\ \E self \in Selfs("IPL", paths, ids, edits, applies, rots) :
          ExportAsIPL_execute(self, faults)
    /\ op' = NoOp
    /\ UNCHANGED <<selected_objects, gtass_model_id>>

(***************************************************************************)
(* The scene: the objects a selection is drawn from.                       *)
(***************************************************************************)
Obj(type, name, colls, txd, dist, flag, pos, quat) ==
    [type |-> type, name |-> name, users_collection |-> colls,
     ide_flags |-> [texture_name |-> txd, render_distance |-> dist, ide_flag |-> flag],
     pos |-> pos, quat |-> quat]

Pos(x, y, z) == [x |-> x, y |-> y, z |-> z]
Origin == Pos(FZero, FZero, FZero)
Identity == Quat(FOne, FZero, FZero, FZero)

\* IDEFlagsProperties defaults: texture_name 'generic', render_distance 299,
\* ide_flag '0'
Plain(type, name, colls) == Obj(type, name, colls, "generic", 299, "0", Origin, Identity)

Wall == <<"W", "a", "l", "l">>
Wall003 == <<"W", "a", "l", "l", ".", "0", "0", "3">>
Cube == <<"C", "u", "b", "e">>
Cube001 == <<"C", "u", "b", "e", ".", "0", "0", "1">>
Tree1dff == <<"T", "r", "e", "e", "1", ".", "d", "f", "f">>
Tree1DFF == <<"T", "r", "e", "e", "1", ".", "D", "F", "F">>
DotDff == <<".", "d", "f", "f">>
Out == <<"o", "u", "t">>
OutIDE == <<"o", "u", "t", ".", "I", "D", "E">>

NamePool ==
    { Plain("MESH", Wall003, <<>>),
      Obj("MESH", Wall, <<>>, "brick", 100, "4", Origin, Identity),
      Plain("MESH", Cube, <<Tree1dff>>),
      Obj("MESH", Cube001, <<Tree1DFF, Wall>>, "bark", 50, "0", Origin, Identity),
      Plain("MESH", Cube, <<DotDff>>),
      Plain("MESH", Unnamed, <<>>),
      Plain("LIGHT", Wall, <<>>) }

RECURSIVE SeqsUpTo(_, _)
SeqsUpTo(S, n) ==
    IF n = 0 THEN {<<>>}
    ELSE SeqsUpTo(S, n - 1) \cup {Append(q, x) : q \in {t \in SeqsUpTo(S, n - 1) : Len(t) = n - 1}, x \in S}

\* a file left on disk by an earlier session
OldFile == <<[kind |-> "old"]>>
OldFiles == [p \in {ide_filepath(Out), validate_filepath(Out)} |-> OldFile]

\* after register(): the scene's start id has its default, no operator runs,
\* and the user has selected some objects
InitWith(selections, disks) ==
    /\ selected_objects \in selections
    /\ gtass_model_id = DefaultModelId
    /\ op = NoOp
    /\ fs \in disks
    /\ last = [cls \in Classes |-> NoLast]

NoDiskFaults == {NoFault}
OpenFaults == {NoFault, OpenFault}
AllFaults == OpenFaults \cup {WriteFault(k) : k \in 1..(MaxSel + 2)}

IdChoices == {0, 100, DefaultModelId}

(***************************************************************************)
(* Spec: both exporters called directly on selections of objects whose     *)
(* names, collections and attributes differ.                               *)
(***************************************************************************)
Init == InitWith(SeqsUpTo(NamePool, MaxSel), {<<>>, OldFiles})

Next ==
    \/ ExecuteIDE({Out}, {0, 100}, {}, OpenFaults)
    \/ ExecuteIPL({Out}, {0, 100}, {}, {FALSE}, {NoRotation}, OpenFaults)

Spec == Init /\ [][Next]_vars

(***************************************************************************)
(* SpecFaults: the exporters on a disk where every write may fail.         *)
(***************************************************************************)
FaultPool == {Plain("MESH", Wall003, <<>>), Plain("MESH", Cube, <<Tree1dff>>)}

InitFaults == InitWith(SeqsUpTo(FaultPool, MaxSel), {<<>>, OldFiles})

NextFaults ==
    \/ ExecuteIDE({Out}, {100}, {}, AllFaults)
    \/ ExecuteIPL({Out}, {100}, {}, {FALSE}, {NoRotation}, AllFaults)

SpecFaults == InitFaults /\ [][NextFaults]_vars

(***************************************************************************)
(* SpecPaths: the exporters given file paths with and without extensions,  *)
(* on selections with and without mesh objects.                            *)
(***************************************************************************)
PathPool == {Plain("MESH", Wall, <<>>), Plain("LIGHT", Wall, <<>>),
             Plain("EMPTY", Cube, <<Tree1dff>>)}
FilePaths == {<<>>, Out, OutIDE}

InitPaths == InitWith(SeqsUpTo(PathPool, MaxSel), {<<>>, OldFiles})

NextPaths ==
    \/ ExecuteIDE(FilePaths, {100}, {}, OpenFaults)
    \/ ExecuteIPL(FilePaths, {100}, {}, {FALSE}, {NoRotation}, OpenFaults)

SpecPaths == InitPaths /\ [][NextPaths]_vars

(***************************************************************************)
(* SpecStartId: the start id, through the panel, invoke(), the file        *)
(* selector and execute().                                                 *)
(***************************************************************************)
InitStartId == InitWith(SeqsUpTo({Plain("MESH", Wall, <<>>)}, MaxSel), {<<>>})

NextStartId ==
    \/ \E v \in IdChoices : SetStartId(v)
    \/ \E cls \in Classes, mid \in IdChoices : Invoke(cls, mid)
    \/ CancelFileSelect
    \/ ExecuteIDE({Out}, IdChoices, {0}, NoDiskFaults)
    \/ ExecuteIPL({Out}, IdChoices, {0}, {FALSE}, {NoRotation}, NoDiskFaults)

SpecStartId == InitStartId /\ [][NextStartId]_vars

(***************************************************************************)
(* SpecRot: the placement exporter on rotated and translated objects, with *)
(* and without the default rotation.                                       *)
(***************************************************************************)
FMinusOne == Flt(TRUE, Unit)
RotPool ==
    { Obj("MESH", Cube, <<>>, "generic", 299, "0",
          Pos(Flt(FALSE, 12345674), Flt(TRUE, 4), Flt(TRUE, 25000000)), Identity),
      Obj("MESH", Cube, <<>>, "generic", 299, "0", Origin,
          Quat(FZero, FZero, FOne, FZero)),
      Obj("MESH", Cube, <<>>, "generic", 299, "0", Origin,
          Quat(FZero, FMinusOne, FZero, FZero)),
      Obj("MESH", Cube, <<>>, "generic", 299, "0",
          Pos(Flt(FALSE, 6), FZero, FOne), Quat(FZero, FZero, FZero, FOne)) }
Rotations == {NoRotation, <<1, 0, 0>>, <<0, 1, 1>>, <<3, 0, 2>>}

InitRot == InitWith(SeqsUpTo(RotPool, MaxSel), {<<>>})

NextRot ==
    \/ ExecuteIDE({Out}, {100}, {}, NoDiskFaults)
    \/ ExecuteIPL({Out}, {100}, {}, BOOLEAN, Rotations, NoDiskFaults)

SpecRot == InitRot /\ [][NextRot]_vars

(***************************************************************************)
(* SpecNames: the exporters on one object whose name, or whose first       *)
(* collection's name, is drawn from names with and without suffixes.       *)
(***************************************************************************)
Stems == {<<>>, <<"W">>}
Suffixes == {<<>>, <<".", "3">>, <<".", "0", "7">>, DffSuffix,
             <<".", "D", "f", "F">>, <<".">>}
Endings == {<<>>, <<NL>>}
Names == {a \o b \o c \o d : a \in Stems, b \in Suffixes, c \in Suffixes, d \in Endings}

NamedObjects ==
    {Plain("MESH", n, <<>>) : n \in Names}
        \cup {Plain("MESH", Wall003, <<n>>) : n \in Names}
        \cup {Plain("MESH", Wall003, <<n, Cube001>>) : n \in Names}

InitNames == InitWith({<<o>> : o \in NamedObjects}, {<<>>})

NextNames ==
    \/ ExecuteIDE({Out}, {100}, {}, NoDiskFaults)
    \/ ExecuteIPL({Out}, {100}, {}, {FALSE}, {NoRotation}, NoDiskFaults)

SpecNames == InitNames /\ [][NextNames]_vars

(***************************************************************************)
(* What the claims speak of, read off the state.                           *)
(***************************************************************************)
Meshes == SelectSeq(selected_objects, LAMBDA o : o.type = "MESH")
NoMesh == \A i \in 1..Len(selected_objects) : selected_objects[i].type # "MESH"

\* the name with one trailing "." + digits removed
StripNumericSuffix(name) ==
    LET at == {i \in 1..(Len(name) - 1) :
                 name[i] = "." /\ \A j \in (i + 1)..Len(name) : name[j] \in Digits}
    IN IF at = {} THEN name ELSE SubSeq(name, 1, (CHOOSE i \in at : TRUE) - 1)

\* the name with one trailing ".dff", in any letter case, removed
StripDff(name) ==
    LET n == Len(name)
    IN IF /\ n >= 4
          /\ name[n - 3] = "."
          /\ name[n - 2] \in {"d", "D"}
          /\ name[n - 1] \in {"f", "F"}
          /\ name[n] \in {"f", "F"}
       THEN SubSeq(name, 1, n - 4)
       ELSE name

\* name resolution: the group's name first, else the object's name
ResolvedName(o) ==
    IF o.users_collection # <<>>
    THEN StripDff(o.users_collection[1])
    ELSE StripNumericSuffix(o.name)

Placeholder == <<"U", "n", "n", "a", "m", "e", "d">>
WithPlaceholder(name) == IF name = <<>> THEN Placeholder ELSE name

\* the canonical name of an object: the resolved name, or the placeholder
CanonicalName(o) == WithPlaceholder(ResolvedName(o))
CNames == [i \in 1..Len(Meshes) |-> CanonicalName(Meshes[i])]
DistinctCNames == {CNames[i] : i \in 1..Len(Meshes)}

FirstIndex(names, n) ==
    CHOOSE i \in 1..Len(names) : names[i] = n /\ \A j \in 1..(i - 1) : names[j] # n
\* how many distinct names come before the first occurrence of n
FirstSeenRank(names, n) ==
    Cardinality({names[j] : j \in 1..(FirstIndex(names, n) - 1)})

Finished(cls) == last[cls].ret = "FINISHED"
Failed(cls) == last[cls].ret \in {"CANCELLED", "RAISED"}
File(cls) == fs[last[cls].filepath]
Records(cls) ==
    SelectSeq(File(cls), LAMBDA l : l.kind = (IF cls = "IDE" THEN "ide" ELSE "ipl"))
\* the start id of the export: the operator's model_id, or the scene's
StartId(cls) ==
    IF last[cls].model_id # 0 THEN last[cls].model_id ELSE last[cls].scene_id

IdeWellFormed(f) ==
    /\ Len(f) >= 2
    /\ f[1] = ObjsLine
    /\ f[Len(f)] = EndLine
    /\ \A i \in 2..(Len(f) - 1) : f[i].kind = "ide"
IplWellFormed(f) ==
    /\ Len(f) >= 3
    /\ f[1] = CommentLine
    /\ f[2] = InstLine
    /\ f[Len(f)] = EndLine
    /\ \A i \in 3..(Len(f) - 1) : f[i].kind = "ipl"
WellFormed(cls, f) == IF cls = "IDE" THEN IdeWellFormed(f) ELSE IplWellFormed(f)

(***************************************************************************)
(* C1: the IDE and the IPL exporter, run over the same selection with the  *)
(* same start id, give every canonical name the same id: the id on each    *)
(* placement line is the id on the definition line of that object's        *)
(* canonical name.                                                         *)
(***************************************************************************)
C1_SameIdsInBothFiles ==
    (Finished("IDE") /\ Finished("IPL") /\ StartId("IDE") = StartId("IPL"))
    => \A i \in 1..Len(Meshes) :
         /\ i <= Len(Records("IPL"))
         /\ \E j \in 1..Len(Records("IDE")) :
              /\ Records("IDE")[j].name = CNames[i]
              /\ Records("IDE")[j].id = Records("IPL")[i].id

(***************************************************************************)
(* C2: in both exporters the ids assigned during one export are startId,   *)
(* startId+1, ... without gap or reuse, in first-seen order of the         *)
(* canonical names, exactly one id per distinct canonical name.            *)
(***************************************************************************)
C2_GaplessOneIdPerCanonicalName ==
    \A cls \in Classes :
      Finished(cls) =>
        LET m == last[cls].mapping
        IN /\ \A k \in 1..Len(m) : m[k].mid = StartId(cls) + k - 1
           /\ Len(m) = Cardinality(DistinctCNames)
           /\ \A i \in 1..Len(Meshes) :
                LET k == FirstSeenRank(CNames, CNames[i]) + 1
                IN k <= Len(m) /\ WithPlaceholder(m[k].key) = CNames[i]

(***************************************************************************)
(* C3: an export has no partial outcome: when it finishes, the target file *)
(* is complete (header, records, end); when it fails, no partially written *)
(* or truncated file is left at the target path.                           *)
(***************************************************************************)
C3_NoPartialFile ==
    \A cls \in Classes :
      /\ Finished(cls) =>
           last[cls].filepath \in DOMAIN fs /\ WellFormed(cls, File(cls))
      /\ Failed(cls) =>
           \/ last[cls].filepath \notin DOMAIN fs
           \/ File(cls) = OldFile
           \/ WellFormed(cls, File(cls))

(***************************************************************************)
(* C4: in both exporters, an operator whose model_id is unset (4542) or 0  *)
(* and was not changed in the file selector starts the ids at 4542,        *)
(* whatever the scene's start id is.                                       *)
(***************************************************************************)
NoStartIdGiven(cls) ==
    /\ Finished(cls)
    /\ ~last[cls].edited
    /\ last[cls].given \in {0, DefaultModelId}
FirstId(cls) == Records(cls)[1].id

C4_StartsAtDefault ==
    \A cls \in Classes : NoStartIdGiven(cls) => FirstId(cls) = DefaultModelId

(***************************************************************************)
(* C4, amended: in both exporters, an operator whose model_id is unset or  *)
(* 0 starts the ids at the scene's start id: the one invoke() read, or,    *)
(* when invoke() did not run or read 0, the one at execute(); only an      *)
(* unset model_id executed without invoke() starts at 4542.                *)
(***************************************************************************)
C4_StartsAtSceneStartId ==
    \A cls \in Classes :
      NoStartIdGiven(cls) =>
        FirstId(cls) =
          IF last[cls].invoked /\ last[cls].invoke_scene_id # 0
          THEN last[cls].invoke_scene_id
          ELSE IF last[cls].invoked \/ last[cls].given = 0
          THEN last[cls].scene_id
          ELSE DefaultModelId

C4_Witness ==
    \A cls \in Classes :
      /\ NoStartIdGiven(cls)
      /\ last[cls].invoked
      /\ FirstId(cls) = 100
      /\ FirstId(cls) = last[cls].scene_id

(***************************************************************************)
(* C5: with no mesh object in the selection, execute() of either exporter  *)
(* returns CANCELLED with a warning, opens and writes no file, and leaves  *)
(* the operator's file path as it was.                                     *)
(***************************************************************************)
C5_NoMeshCancels ==
    [][NoMesh =>
         /\ fs' = fs
         /\ \A cls \in Classes :
              last'[cls] # last[cls] =>
                /\ last'[cls].ret = "CANCELLED"
                /\ last'[cls].report = "WARNING"
                /\ ~last'[cls].opened
                /\ last'[cls].filepath = last'[cls].filepath_in]_vars

C5_Witness ==
    /\ NoMesh
    /\ Len(selected_objects) = MaxSel
    /\ fs = OldFiles
    /\ \A cls \in Classes :
         last[cls].ret = "CANCELLED" /\ last[cls].filepath_in = Out

(***************************************************************************)
(* C6: the IDE exporter writes one record per distinct canonical name of   *)
(* the mesh objects, in first-seen order, with the texture name, render    *)
(* distance and flag of the first mesh object that has that name.          *)
(***************************************************************************)
C6_OneRecordPerCanonicalName ==
    Finished("IDE") =>
      LET recs == Records("IDE")
      IN /\ File("IDE") = <<ObjsLine>> \o recs \o <<EndLine>>
         /\ Len(recs) = Cardinality(DistinctCNames)
         /\ \A i \in 1..Len(Meshes) :
              LET k == FirstSeenRank(CNames, CNames[i]) + 1
                  first == Meshes[FirstIndex(CNames, CNames[i])].ide_flags
              IN /\ k <= Len(recs)
                 /\ recs[k].txd = first.texture_name
                 /\ recs[k].dist = first.render_distance
                 /\ recs[k].flag = first.ide_flag

(***************************************************************************)
(* C7: the IPL exporter writes one record per mesh object, in input order, *)
(* not deduplicated, each with zone index 0 and level of detail -1, and    *)
(* with the id the mapping holds for the object's canonical name: the      *)
(* lookup never falls back to -1.                                          *)
(***************************************************************************)
C7_OneRecordPerMeshObject ==
    Finished("IPL") =>
      LET recs == Records("IPL")
          mapping == last["IPL"].mapping
      IN /\ File("IPL") = <<CommentLine, InstLine>> \o recs \o <<EndLine>>
         /\ Len(recs) = Len(Meshes)
         /\ \A i \in 1..Len(recs) :
              /\ recs[i].name = CNames[i]
              /\ recs[i].inter = 0
              /\ recs[i].lod = -1
              /\ \E k \in 1..Len(mapping) :
                   mapping[k].key = CNames[i] /\ mapping[k].mid = recs[i].id

C7_Witness ==
    /\ Finished("IPL")
    /\ Len(selected_objects) = MaxSel
    /\ Len(Records("IPL")) = Len(Meshes)
    /\ \E i \in 1..Len(Meshes), j \in 1..Len(Meshes) :
         /\ i < j
         /\ ResolvedName(Meshes[i]) = <<>>
         /\ Records("IPL")[i].name = Placeholder
         /\ Records("IPL")[j].id = Records("IPL")[i].id

(***************************************************************************)
(* C8: the name written for an object is its group's name with one         *)
(* trailing ".dff" (any case) removed and nothing else changed, whatever   *)
(* the object's own name; without a group it is the object's name with one *)
(* trailing "." + digits removed.                                          *)
(***************************************************************************)
C8_NameResolution ==
    /\ Finished("IDE") =>
         \A i \in 1..Len(Records("IDE")) :
           Records("IDE")[i].name = ResolvedName(Meshes[i])
    /\ Finished("IPL") =>
         \A i \in 1..Len(Records("IPL")) :
           Records("IPL")[i].name = CanonicalName(Meshes[i])

(***************************************************************************)
(* C9: wherever a name resolves to the empty string the placeholder is     *)
(* written in its place: no exporter writes a record with an empty name,   *)
(* and no id is assigned to the empty name.                                *)
(***************************************************************************)
C9_NoEmptyName ==
    \A cls \in Classes :
      Finished(cls) =>
        /\ \A i \in 1..Len(Records(cls)) : Records(cls)[i].name # <<>>
        /\ \A k \in 1..Len(last[cls].mapping) : last[cls].mapping[k].key # <<>>

(***************************************************************************)
(* C10: every placement record carries (-q.x, q.y, -q.z, q.w), where q is  *)
(* the object's world rotation when apply-default-rotation is off and      *)
(* defaultQuat * objectQuat when it is on, and carries the position        *)
(* unchanged; all to six decimals, -0 and 0 being the same number.         *)
(* The expected values are computed over the integers: the model's         *)
(* rotations have integer quaternion components.                           *)
(***************************************************************************)
\* the number a "%.6f" text stands for, in millionths
TextValue(t) == (IF t.neg THEN -1 ELSE 1) * (t.int * (10 ^ FmtDigits) + t.frac)
\* a number in units of 10^-7 rounded to millionths
Millionths(v) == (IF v.neg THEN -1 ELSE 1) * ((v.mag + 5) \div 10)

IntQuat(q) ==
    [w |-> FSigned(q.w) \div Unit, x |-> FSigned(q.x) \div Unit,
     y |-> FSigned(q.y) \div Unit, z |-> FSigned(q.z) \div Unit]

\* the Hamilton product a * b
Hamilton(a, b) ==
    [w |-> a.w * b.w - a.x * b.x - a.y * b.y - a.z * b.z,
     x |-> a.w * b.x + a.x * b.w + a.y * b.z - a.z * b.y,
     y |-> a.w * b.y - a.x * b.z + a.y * b.w + a.z * b.x,
     z |-> a.w * b.z + a.x * b.y - a.y * b.x + a.z * b.w]

\* cos and sin of k quarter turns
Cos4(k) == <<1, 0, -1, 0>>[(k % 4) + 1]
Sin4(k) == <<0, 1, 0, -1>>[(k % 4) + 1]
\* the rotation by k half turns about one axis
AboutX(k) == [w |-> Cos4(k), x |-> Sin4(k), y |-> 0, z |-> 0]
AboutY(k) == [w |-> Cos4(k), x |-> 0, y |-> Sin4(k), z |-> 0]
AboutZ(k) == [w |-> Cos4(k), x |-> 0, y |-> 0, z |-> Sin4(k)]
\* the quaternion of an XYZ Euler triple: about X first, then Y, then Z
DefaultQuat(e) == Hamilton(AboutZ(e[3]), Hamilton(AboutY(e[2]), AboutX(e[1])))

ExpectedBase(o) ==
    IF last["IPL"].apply_default_rotation
    THEN Hamilton(DefaultQuat(last["IPL"].default_rotation), IntQuat(o.quat))
    ELSE IntQuat(o.quat)

C10_QuaternionSignFlip ==
    Finished("IPL") =>
      \A i \in 1..Len(Meshes) :
        LET r == Records("IPL")[i]
            q == ExpectedBase(Meshes[i])
            pos == Meshes[i].pos
        IN /\ TextValue(r.rx) = (0 - q.x) * (10 ^ FmtDigits)
           /\ TextValue(r.ry) = q.y * (10 ^ FmtDigits)
           /\ TextValue(r.rz) = (0 - q.z) * (10 ^ FmtDigits)
           /\ TextValue(r.rw) = q.w * (10 ^ FmtDigits)
           /\ TextValue(r.px) = Millionths(pos.x)
           /\ TextValue(r.py) = Millionths(pos.y)
           /\ TextValue(r.pz) = Millionths(pos.z)

C10_Witness ==
    /\ Finished("IPL")
    /\ last["IPL"].apply_default_rotation
    /\ last["IPL"].default_rotation = <<1, 0, 0>>
    /\ Len(Meshes) = MaxSel
    /\ IntQuat(Meshes[1].quat) = [w |-> 0, x |-> 0, y |-> 1, z |-> 0]
    /\ TextValue(Records("IPL")[1].rz) = 0 - (10 ^ FmtDigits)
    /\ TextValue(Records("IPL")[MaxSel].px) = 1234567

====
